---- MODULE Spec2Model ----
(***************************************************************************)
(* Playback / synchronisation core of the Document Reader (src/script.js): *)
(* chunking of the text, the chain of speech requests, the tracked offset, *)
(* the settings-change restart and the PDF span highlight.                 *)
(*                                                                         *)
(* The page is single threaded: every handler (a click, a timer, an engine *)
(* event) runs to completion, so each handler is one action.  A handler is *)
(* written as a function from the state record S to the state record after *)
(* it, which lets one handler call another as the code does.               *)
(*                                                                         *)
(* The speech engine (window.speechSynthesis) is the browser's.  It is     *)
(* modelled by its queue, its paused flag and the events it may deliver:   *)
(* boundary, end and error events for the utterance at the head of the     *)
(* queue, and, for an utterance removed by cancel(), one terminal event    *)
(* that is either "error" (what the Web Speech API prescribes) or "end"    *)
(* (what some engines deliver), at any later moment.                       *)
(***************************************************************************)
EXTENDS Integers, Sequences, FiniteSets, TLC

(* ------------------------------ bounds -------------------------------- *)

\* Characters per chunk.  The source uses 3000 (script.js:64); the model
\* keeps the arithmetic and scales the number down.
internalChunkSize == 2

\* Longest plain text a load or an edit produces.
MaxLen == 5

\* Most timers pending at once.
MaxTimers == 2

\* Longest span array, and largest span end, of the highlight specification.
MaxSpans == 3

MaxSpanEnd == 4

(* ------------------------- program constants -------------------------- *)

\* setTimeout(() => playFromCurrentChunk(), 120)
AdvanceDelay == 120

\* setTimeout(() => playFromCurrentChunk(offset), 60)
SettleDelay == 60

(* ------------------------------ helpers ------------------------------- *)

Min(a, b) == IF a < b THEN a ELSE b

Max(a, b) == IF a > b THEN a ELSE b

\* String.prototype.slice(a, b) for 0 <= a: 0-based, end exclusive, clamped.
Slice(s, a, b) == SubSeq(s, a + 1, Min(b, Len(s)))

\* s.slice(a)
SliceFrom(s, a) == SubSeq(s, a + 1, Len(s))

RECURSIVE Concat(_)
Concat(ss) == IF ss = <<>> THEN <<>> ELSE Head(ss) \o Concat(Tail(ss))

Letters == <<"a", "b", "c", "d", "e", "f", "g", "h">>

\* The plain text of n characters, all different while n <= 8.
Doc(n) == [i \in 1..n |-> Letters[((i - 1) % 8) + 1]]

NULL == "null"

(* ------------------------------- state -------------------------------- *)

VARIABLES
  currentText,              \* let currentText = ''
  currentChunks,            \* let currentChunks = []
  currentIndex,             \* let currentIndex = 0
  isPlaying,                \* let isPlaying = false
  utterance,                \* let utterance = null: NULL, or "object" when it
                            \* refers to an utterance (the one whose ref is TRUE)
  lastBoundaryGlobalStart,  \* last global char index a boundary was seen at
  restartInFlight,          \* the restart guard
  isPDFMode,                \* whether the PDF viewer is in use
  pdfSpans,                 \* flattened list of [start, end]; the element of
                            \* span i is the handle i
  currentPDFSpanEl,         \* handle of the highlighted span: 0 is null, -1 an
                            \* element of an earlier render
  loading,                  \* the file whose read is awaited: NULL, "pdf", "text"
  queue,                    \* speechSynthesis: utterances spoken or pending
  cancelled,                \* utterances removed by cancel() whose terminal
                            \* event is still to be delivered
  paused,                   \* speechSynthesis.paused
  timers,                   \* pending setTimeout callbacks, oldest first
  rateValue,                \* rateSlider.value, in hundredths
  volumeValue,              \* volumeSlider.value, in hundredths
  voiceValue,               \* voiceSelect.value: the name of a voice
  speedLabel,               \* speedLabel.textContent
  resumeTarget,             \* history: the offset a committed settings change
                            \* is to resume at, -1 when none is awaited
  lastEvent                 \* history: the last handler that ran, boundary
                            \* events and handlers that returned at once apart

vars == <<currentText, currentChunks, currentIndex, isPlaying, utterance,
          lastBoundaryGlobalStart, restartInFlight, isPDFMode, pdfSpans,
          currentPDFSpanEl, loading, queue, cancelled, paused, timers,
          rateValue, volumeValue, voiceValue, speedLabel, resumeTarget,
          lastEvent>>

\* The state as one record, for the handlers to transform.
S == [currentText |-> currentText, currentChunks |-> currentChunks,
      currentIndex |-> currentIndex, isPlaying |-> isPlaying,
      utterance |-> utterance,
      lastBoundaryGlobalStart |-> lastBoundaryGlobalStart,
      restartInFlight |-> restartInFlight, isPDFMode |-> isPDFMode,
      pdfSpans |-> pdfSpans, currentPDFSpanEl |-> currentPDFSpanEl,
      loading |-> loading, queue |-> queue, cancelled |-> cancelled,
      paused |-> paused, timers |-> timers, rateValue |-> rateValue,
      volumeValue |-> volumeValue, voiceValue |-> voiceValue,
      speedLabel |-> speedLabel, resumeTarget |-> resumeTarget,
      lastEvent |-> lastEvent]

\* The handler's result becomes the next state.
Apply(r) ==
  /\ queue' = r.queue
  /\ timers' = r.timers
  /\ isPlaying' = r.isPlaying
  /\ currentIndex' = r.currentIndex
  /\ lastBoundaryGlobalStart' = r.lastBoundaryGlobalStart
  /\ restartInFlight' = r.restartInFlight
  /\ cancelled' = r.cancelled
  /\ paused' = r.paused
  /\ utterance' = r.utterance
  /\ currentText' = r.currentText
  /\ currentChunks' = r.currentChunks
  /\ isPDFMode' = r.isPDFMode
  /\ pdfSpans' = r.pdfSpans
  /\ currentPDFSpanEl' = r.currentPDFSpanEl
  /\ loading' = r.loading
  /\ rateValue' = r.rateValue
  /\ volumeValue' = r.volumeValue
  /\ voiceValue' = r.voiceValue
  /\ speedLabel' = r.speedLabel
  /\ resumeTarget' = r.resumeTarget
  /\ lastEvent' = r.lastEvent

(* ------------------------------ controls ------------------------------ *)

\* The values of the two sliders are numbers of at most two decimals; the
\* model holds them in hundredths.  One is the number 1.
One == 100

DigitChar == <<"0", "1", "2", "3", "4", "5", "6", "7", "8", "9">>

\* The decimal digits of a natural number.
RECURSIVE Digits(_)
Digits(n) ==
  IF n < 10 THEN <<DigitChar[n + 1]>>
  ELSE Digits(n \div 10) \o <<DigitChar[(n % 10) + 1]>>

\* Number(v).toFixed(2) + the multiplication sign, of the value v hundredths
FormatSpeed(v) ==
  Digits(v \div One) \o <<".", DigitChar[((v % One) \div 10) + 1],
                            DigitChar[(v % 10) + 1], "x">>

\* Number(slider.value) || 1: 0 is falsy and becomes 1.
NumberOr1(v) == IF v = 0 THEN One ELSE v

\* The voices speechSynthesis.getVoices() gives; populateVoiceList makes
\* each an option of voiceSelect, the first one selected.
voices == <<"v1", "v2">>

\* voices.find(vo => vo.name === selName) || ... || voices[0]
FindVoice(selName) ==
  IF \E k \in DOMAIN voices : voices[k] = selName THEN selName ELSE voices[1]

\* The state after construction and window.onload (script.js:39-43,
\* 126-131, 489-490).
InitState ==
  [currentText |-> <<>>, currentChunks |-> <<>>, currentIndex |-> 0,
   isPlaying |-> FALSE, utterance |-> NULL, lastBoundaryGlobalStart |-> 0,
   restartInFlight |-> FALSE, isPDFMode |-> FALSE, pdfSpans |-> <<>>,
   currentPDFSpanEl |-> 0, loading |-> NULL, queue |-> <<>>,
   cancelled |-> {}, paused |-> FALSE, timers |-> <<>>,
   rateValue |-> One, volumeValue |-> One, voiceValue |-> voices[1],
   speedLabel |-> FormatSpeed(One), resumeTarget |-> -1,
   lastEvent |-> "load"]

(* --------------------------- speech engine ---------------------------- *)

\* new SpeechSynthesisUtterance(text) with the rate, volume and voice and
\* the three handlers speakChunk sets.  base is the baseOffset the onboundary
\* closure holds; last is the charIndex of the latest boundary event
\* delivered (-1: none yet).
NewUtterance(s, text, base) ==
  [text |-> text, base |-> base, onend |-> TRUE, onerror |-> TRUE,
   last |-> -1, ref |-> TRUE,
   rate |-> NumberOr1(s.rateValue), volume |-> NumberOr1(s.volumeValue),
   voice |-> FindVoice(s.voiceValue)]

\* speechSynthesis.speak(u): u joins the queue.
EngineSpeak(s, u) == [s EXCEPT !.queue = Append(s.queue, u)]

\* What cancel() leaves of a queued utterance: its handlers, still to be
\* called with the terminal event.
Removed(u) == [onend |-> u.onend, onerror |-> u.onerror, ref |-> u.ref]

\* A terminal event has an effect only through a handler still set; an
\* utterance with neither handler needs no record.
Audible(cs) == {c \in cs : c.onend \/ c.onerror}

\* speechSynthesis.cancel(): every utterance leaves the queue; the paused
\* state is not changed.
EngineCancel(s) ==
  [s EXCEPT !.queue = <<>>,
            !.cancelled = Audible(s.cancelled \cup
                            {Removed(s.queue[i]) : i \in DOMAIN s.queue})]

\* speechSynthesis.speaking
EngineSpeaking(s) == s.queue # <<>>

\* utterance.onend = null; utterance.onerror = null, on the object the
\* variable refers to, wherever the engine holds it.
Disarm(u) == IF u.ref THEN [u EXCEPT !.onend = FALSE, !.onerror = FALSE] ELSE u

NullHandlers(s) ==
  [s EXCEPT !.queue = [i \in DOMAIN s.queue |-> Disarm(s.queue[i])],
            !.cancelled = Audible({Disarm(c) : c \in s.cancelled})]

\* utterance = null: no object is referred to any more.
Unref(u) == [u EXCEPT !.ref = FALSE]

DropReference(s) ==
  [s EXCEPT !.utterance = NULL,
            !.queue = [i \in DOMAIN s.queue |-> Unref(s.queue[i])],
            !.cancelled = {Unref(c) : c \in s.cancelled}]

(* --------------------------- text handling ---------------------------- *)

\* buildChunks with slices one character too long.
RECURSIVE ChunksFromOverlap(_, _)
ChunksFromOverlap(text, i) ==
  IF i < Len(text)
  THEN <<Slice(text, i, i + internalChunkSize + 1)>>
         \o ChunksFromOverlap(text, i + internalChunkSize)
  ELSE <<>>

\* buildChunks: for (i = 0; i < currentText.length; i += chunkSize)
\*                currentChunks.push(currentText.slice(i, i + chunkSize))
RECURSIVE ChunksFrom(_, _)
ChunksFrom(text, i) ==
  IF i < Len(text)
  THEN <<Slice(text, i, i + internalChunkSize)>>
         \o ChunksFrom(text, i + internalChunkSize)
  ELSE <<>>

buildChunks(s) == [s EXCEPT !.currentChunks = ChunksFrom(s.currentText, 0)]

\* setTextViewer(text)
setTextViewer(s, text) ==
  buildChunks([s EXCEPT !.currentText = text, !.currentIndex = 0,
                        !.lastEvent = "doc"])

\* clearPDFHighlight
clearPDFHighlight(s) == [s EXCEPT !.currentPDFSpanEl = 0]

\* The binary search taking a span's end as inside the span.
RECURSIVE SearchSpansInclusive(_, _, _, _)
SearchSpansInclusive(spans, idx, lo, hi) ==
  IF lo > hi THEN 0
  ELSE LET mid == (lo + hi) \div 2
           sp == spans[mid + 1]
       IN  IF idx < sp.start THEN SearchSpansInclusive(spans, idx, lo, mid - 1)
           ELSE IF idx > sp.end THEN SearchSpansInclusive(spans, idx, mid + 1, hi)
           ELSE mid + 1

\* findPDFSpanAt: binary search in the sorted pdfSpans, lo and hi 0-based;
\* the result is the handle of the span found, 0 for null.
RECURSIVE SearchSpans(_, _, _, _)
SearchSpans(spans, idx, lo, hi) ==
  IF lo > hi THEN 0
  ELSE LET mid == (lo + hi) \div 2
           sp == spans[mid + 1]
       IN  IF idx < sp.start THEN SearchSpans(spans, idx, lo, mid - 1)
           ELSE IF idx >= sp.end THEN SearchSpans(spans, idx, mid + 1, hi)
           ELSE mid + 1

findPDFSpanAt(spans, idx) == SearchSpans(spans, idx, 0, Len(spans) - 1)

(* ------------------------------ playback ------------------------------ *)

\* speakChunk that speaks without cancelling the utterance before.
speakChunkNoCancel(s, text, baseOffset) ==
  EngineSpeak([DropReference(s) EXCEPT !.utterance = "object",
                                       !.lastBoundaryGlobalStart = baseOffset,
                                       !.resumeTarget = -1],
              NewUtterance(s, text, baseOffset))

\* speakChunk that leaves lastBoundaryGlobalStart as it was.
speakChunkNoInit(s, text, baseOffset) ==
  LET s1 == IF s.utterance # NULL
            THEN DropReference(EngineCancel(NullHandlers(s)))
            ELSE s
  IN  EngineSpeak([s1 EXCEPT !.utterance = "object", !.resumeTarget = -1],
                  NewUtterance(s, text, baseOffset))

\* speakChunk(text, onend, baseOffsetOverride): every caller passes the
\* completion callback of playFromCurrentChunk and a numeric base offset.
speakChunk(s, text, baseOffset) ==
  LET s1 == IF s.utterance # NULL
            THEN DropReference(EngineCancel(NullHandlers(s)))
            ELSE s
      s2 == [s1 EXCEPT !.utterance = "object",
                       !.lastBoundaryGlobalStart = baseOffset,
                       !.resumeTarget = -1]
  IN  EngineSpeak(s2, NewUtterance(s, text, baseOffset))

\* updatePlayPauseUI: of what it does, the model keeps clearPDFHighlight.
updatePlayPauseUI(s) == IF s.isPlaying THEN s ELSE clearPDFHighlight(s)

\* The chunk index playFromCurrentChunk plays: a negative one becomes 0.
PlayIndex(s) == IF s.currentIndex < 0 THEN 0 ELSE s.currentIndex

\* The chunks playFromCurrentChunk plays from: built when there are none.
PlayChunks(s) ==
  IF Len(s.currentChunks) = 0 THEN buildChunks(s).currentChunks
  ELSE s.currentChunks

\* Whether playFromCurrentChunk gets past its early return.
CanPlay(s) == PlayIndex(s) < Len(PlayChunks(s))

\* playFromCurrentChunk(offsetWithinChunk)
playFromCurrentChunk(s, offsetWithinChunk) ==
  LET s1 == [s EXCEPT !.currentChunks = PlayChunks(s),
                      !.currentIndex = PlayIndex(s)]
  IN  IF ~CanPlay(s) THEN [s1 EXCEPT !.isPlaying = FALSE]
      ELSE LET s2 == [s1 EXCEPT !.isPlaying = TRUE, !.restartInFlight = FALSE]
               chunkFull == s2.currentChunks[s2.currentIndex + 1]
               speakOffset == Max(0, Min(offsetWithinChunk, Len(chunkFull)))
               chunk == IF speakOffset # 0 THEN SliceFrom(chunkFull, speakOffset)
                        ELSE chunkFull
               baseOffset == s2.currentIndex * internalChunkSize + speakOffset
           IN  speakChunk(updatePlayPauseUI(s2), chunk, baseOffset)

\* The completion callback, stopping after every chunk.
onChunkEndStops(s) ==
  updatePlayPauseUI([s EXCEPT !.currentIndex = s.currentIndex + 1,
                              !.lastEvent = "end", !.isPlaying = FALSE])

\* The completion callback playFromCurrentChunk hands to speakChunk.
onChunkEnd(s) ==
  LET s1 == [s EXCEPT !.currentIndex = s.currentIndex + 1, !.lastEvent = "end"]
  IN  IF s1.currentIndex < Len(s1.currentChunks) /\ s1.isPlaying
      THEN [s1 EXCEPT !.timers = Append(s1.timers,
              [kind |-> "advance", offset |-> 0, delay |-> AdvanceDelay])]
      ELSE updatePlayPauseUI([s1 EXCEPT !.isPlaying = FALSE])

\* utterance.onerror
onUtteranceError(s) == [s EXCEPT !.isPlaying = FALSE, !.lastEvent = "error"]

\* Math.round in place of Math.floor.
ChunkIndexOfRound(idx) == (2 * idx + internalChunkSize) \div (2 * internalChunkSize)

\* The chunk a character index lies in: Math.floor(idx / chunkSize).
ChunkIndexOf(idx) == idx \div internalChunkSize

\* jumpToCharIndex(idx)
jumpToCharIndex(s, idx) ==
  IF s.currentText = <<>> THEN s
  ELSE LET clamped == Max(0, Min(Len(s.currentText) - 1, idx))
           s1 == [s EXCEPT !.currentIndex = ChunkIndexOf(clamped),
                           !.resumeTarget = -1, !.lastEvent = "jump"]
           baseOffset == s1.currentIndex * internalChunkSize
           offsetWithinChunk == Max(0, clamped - baseOffset)
       IN  playFromCurrentChunk(s1, offsetWithinChunk)

\* The click handler without its test for a text.
playPauseClickAnyText(s) ==
  LET u == [s EXCEPT !.resumeTarget = -1]
  IN  IF ~u.isPlaying
      THEN IF u.paused
           THEN updatePlayPauseUI([u EXCEPT !.paused = FALSE, !.isPlaying = TRUE,
                                            !.lastEvent = "play"])
           ELSE playFromCurrentChunk([u EXCEPT !.lastEvent = "play"], 0)
      ELSE LET u1 == IF EngineSpeaking(u) THEN [u EXCEPT !.paused = TRUE] ELSE u
           IN  updatePlayPauseUI([u1 EXCEPT !.isPlaying = FALSE,
                                            !.lastEvent = "pause"])

\* The play/pause button's click handler.
playPauseClick(s) ==
  LET u == [s EXCEPT !.resumeTarget = -1]
  IN  IF u.currentText = <<>> THEN u
      ELSE IF ~u.isPlaying
      THEN IF u.paused
           THEN updatePlayPauseUI([u EXCEPT !.paused = FALSE, !.isPlaying = TRUE,
                                            !.lastEvent = "play"])
           ELSE playFromCurrentChunk([u EXCEPT !.lastEvent = "play"], 0)
      ELSE LET u1 == IF EngineSpeaking(u) THEN [u EXCEPT !.paused = TRUE] ELSE u
           IN  updatePlayPauseUI([u1 EXCEPT !.isPlaying = FALSE,
                                            !.lastEvent = "pause"])

\* The stop button's click handler.
stopClick(s) ==
  LET s1 == EngineCancel([s EXCEPT !.resumeTarget = -1, !.lastEvent = "stop"])
  IN  updatePlayPauseUI(clearPDFHighlight(
        [s1 EXCEPT !.isPlaying = FALSE, !.currentIndex = 0]))

\* restartWithNewSettingsFromCurrentPosition(force)
restartWithNewSettingsFromCurrentPosition(s, force) ==
  IF s.restartInFlight THEN s
  ELSE IF ~((s.isPlaying \/ force) /\ s.currentText # <<>>) THEN s
  ELSE LET fallback == s.currentIndex * internalChunkSize
           resumeAt == IF s.lastBoundaryGlobalStart >= 0
                       THEN s.lastBoundaryGlobalStart ELSE fallback
           s1 == IF s.utterance # NULL THEN NullHandlers(s) ELSE s
           s2 == EngineCancel([s1 EXCEPT !.restartInFlight = TRUE,
                                         !.lastEvent = "change"])
       IN  IF ~s2.isPlaying /\ ~force THEN s2
           ELSE LET newIndex == Max(0, ChunkIndexOf(resumeAt))
                    newBase == newIndex * internalChunkSize
                    offset == Max(0, resumeAt - newBase)
                IN  [s2 EXCEPT
                       !.currentIndex = newIndex,
                       !.resumeTarget = IF s.isPlaying THEN resumeAt ELSE -1,
                       !.timers = Append(s2.timers,
                          [kind |-> "restart", offset |-> offset,
                           delay |-> SettleDelay])]

\* voiceSelect change: the browser has set the control to v.
voiceSelectChange(s, v) ==
  restartWithNewSettingsFromCurrentPosition([s EXCEPT !.voiceValue = v], TRUE)

\* rateSlider change
rateSliderChange(s, v) ==
  restartWithNewSettingsFromCurrentPosition(
    [s EXCEPT !.rateValue = v, !.speedLabel = FormatSpeed(v)], FALSE)

\* The input handler restarting as the change handler does.
rateSliderInputRestarts(s, v) ==
  restartWithNewSettingsFromCurrentPosition(
    [s EXCEPT !.rateValue = v, !.speedLabel = FormatSpeed(v)], FALSE)

\* rateSlider input: the events of a drag.
rateSliderInput(s, v) ==
  [s EXCEPT !.rateValue = v, !.speedLabel = FormatSpeed(v)]

\* volumeSlider change
volumeSliderChange(s, v) ==
  restartWithNewSettingsFromCurrentPosition([s EXCEPT !.volumeValue = v], FALSE)

(* ---------------------------- PDF rendering --------------------------- *)

RECURSIVE JoinItems(_)
\* tc.items.map(i => i.str).join(' ')
JoinItems(items) ==
  IF items = <<>> THEN <<>>
  ELSE IF Len(items) = 1 THEN Head(items)
  ELSE Head(items) \o <<" ">> \o JoinItems(Tail(items))

\* span.textContent = itm.str + (j < items.length-1 ? ' ' : '')
SpanTextLen(items, j) == Len(items[j]) + (IF j < Len(items) THEN 1 ELSE 0)

\* The spans of one page: start = pageBase + charAcc, end = start + length.
RECURSIVE PageSpans(_, _, _, _)
PageSpans(items, j, pageBase, charAcc) ==
  IF j > Len(items) THEN <<>>
  ELSE LET start == pageBase + charAcc
           end == start + SpanTextLen(items, j)
       IN  <<[start |-> start, end |-> end]>>
             \o PageSpans(items, j + 1, pageBase, charAcc + SpanTextLen(items, j))

\* The loop of renderPDFToViewer over data.pages: the accumulated text and
\* the spans pushed.
RECURSIVE RenderPages(_, _, _)
RenderPages(pages, accumulated, spans) ==
  IF pages = <<>> THEN [text |-> accumulated, spans |-> spans]
  ELSE RenderPages(Tail(pages),
                   accumulated \o JoinItems(Head(pages)) \o <<"\n", "\n">>,
                   spans \o PageSpans(Head(pages), 1, Len(accumulated), 0))

\* renderPDFToViewer up to its await: the viewer is emptied and shown.
renderPDFBegin(s) == [s EXCEPT !.isPDFMode = TRUE]

\* renderPDFToViewer after its await, data being the extracted pages.  The
\* span elements of the render before are not elements of this one.
renderPDFToViewer(s, pages) ==
  LET r == RenderPages(pages, <<>>, <<>>)
  IN  buildChunks([s EXCEPT
        !.pdfSpans = r.spans,
        !.currentPDFSpanEl = IF s.currentPDFSpanEl = 0 THEN 0 ELSE -1,
        !.currentText = r.text,
        !.currentIndex = 0,
        !.lastEvent = "doc"])

\* The pasteBox input handler.
pasteBoxInput(s, text) ==
  buildChunks([s EXCEPT !.currentText = text, !.currentIndex = 0,
                        !.lastEvent = "doc"])

(* --------------------------- boundary events -------------------------- *)

\* The highlight part of utterance.onboundary.
projectPDFHighlight(s, start) ==
  IF s.isPDFMode /\ Len(s.pdfSpans) # 0
  THEN LET hit == findPDFSpanAt(s.pdfSpans, start)
       IN  IF hit # 0 /\ hit # s.currentPDFSpanEl
           THEN [s EXCEPT !.currentPDFSpanEl = hit]
           ELSE s
  ELSE s

\* onboundary looking the span up at the chunk-relative index.
onboundaryRelative(s, baseOffset, charIndex) ==
  projectPDFHighlight(
    [s EXCEPT !.lastBoundaryGlobalStart = baseOffset + charIndex], charIndex)

\* utterance.onboundary of the utterance whose base offset is baseOffset,
\* for an event with e.charIndex = charIndex.
onboundary(s, baseOffset, charIndex) ==
  LET start == baseOffset + charIndex
  IN  projectPDFHighlight([s EXCEPT !.lastBoundaryGlobalStart = start], start)

(* ------------------------------- inputs ------------------------------- *)

\* The plain texts a file or an edit of the text box gives: the empty one,
\* one of a full chunk and a shorter one, and the longest.
Docs == {Doc(n) : n \in {0, internalChunkSize + 1, MaxLen}}

\* Every text of at most MaxLen characters over three characters.
AllTexts == UNION {[1..n -> {"a", "b", "c"}] : n \in 0..MaxLen}

\* The pages PDF extraction gives: a file of one page with the one text run
\* "x", whose text "x\n\n" has a span for "x" and none for the page break.
PdfFiles == {<< <<(<<"x">>)>> >>}

\* The character indexes a double click asks for: the caret position, which
\* may be the end of the text; jumpToCharIndex clamps.
JumpTargets == 0..MaxLen

(* ------------------------------- timers ------------------------------- *)

\* A timer set earlier with a delay no longer than timer i's is due first.
CanFire(i) == \A j \in 1..(i - 1) : timers[j].delay > timers[i].delay

RemoveAt(q, i) == SubSeq(q, 1, i - 1) \o SubSeq(q, i + 1, Len(q))

\* A handler's result, within the bound on pending timers.
Step(r) == Len(r.timers) <= MaxTimers /\ Apply(r)

\* A user gesture or a document change ends the wait for the resume a
\* settings change asked for.
User == [S EXCEPT !.resumeTarget = -1]

(* ------------------------------- actions ------------------------------ *)

\* fileInput change with a PDF file, up to the await in renderPDFToViewer.
ChoosePDF == loading = NULL /\ Step(renderPDFBegin([User EXCEPT !.loading = "pdf"]))

\* The extraction resolves: the rest of renderPDFToViewer.
PDFLoaded(pages) ==
  loading = "pdf" /\ Step(renderPDFToViewer([User EXCEPT !.loading = NULL], pages))

\* fileInput change with a text file, up to the await of readFileAsText.
ChooseText ==
  loading = NULL /\ Step([User EXCEPT !.isPDFMode = FALSE, !.loading = "text"])

\* The read resolves: setTextViewer(txt).
TextLoaded(text) ==
  loading = "text" /\ Step(setTextViewer([User EXCEPT !.loading = NULL], text))

\* The read or the extraction rejects: the catch block only alerts.
LoadFailed == loading # NULL /\ Step([S EXCEPT !.loading = NULL])

PasteInput(text) == Step(pasteBoxInput(User, text))

DblClick(idx) == Step(jumpToCharIndex(User, idx))

PlayPauseClick == Step(playPauseClick(User))

StopClick == Step(stopClick(User))

\* The events of the three controls, v being the value the control has
\* taken.  No handler but speakChunk reads a control, and speakChunk only
\* copies the values into the request: the playback state does not depend on
\* them.  Spec keeps the values as they are after loading; SpecSettings
\* varies them.
VoiceChangeTo(v) == Step(voiceSelectChange(S, v))

RateChangeTo(v) == Step(rateSliderChange(S, v))

RateInputTo(v) == Step(rateSliderInput(S, v))

VolumeChangeTo(v) == Step(volumeSliderChange(S, v))

VoiceChange == VoiceChangeTo(voiceValue)

RateChange == RateChangeTo(rateValue)

RateInput == RateInputTo(rateValue)

VolumeChange == VolumeChangeTo(volumeValue)

\* A pending timer comes due: playFromCurrentChunk(offset).
TimerFire(i) ==
  /\ i \in DOMAIN timers
  /\ CanFire(i)
  /\ Step(playFromCurrentChunk([S EXCEPT !.timers = RemoveAt(timers, i),
                                         !.lastEvent = "timer"],
                               timers[i].offset))

\* The engine reports a boundary of the utterance it is speaking.
Boundary(charIndex) ==
  /\ queue # <<>>
  /\ ~paused
  /\ charIndex > Head(queue).last
  /\ charIndex < Len(Head(queue).text)
  /\ Step(onboundary([S EXCEPT !.queue[1].last = charIndex],
                     Head(queue).base, charIndex))

\* The engine finishes the utterance it is speaking.
UtteranceEnd ==
  /\ queue # <<>>
  /\ ~paused
  /\ LET s1 == [S EXCEPT !.queue = Tail(queue)]
     IN  Step(IF Head(queue).onend THEN onChunkEnd(s1) ELSE s1)

\* The engine fails on the utterance it is speaking.
UtteranceError ==
  /\ queue # <<>>
  /\ LET s1 == [S EXCEPT !.queue = Tail(queue)]
     IN  Step(IF Head(queue).onerror THEN onUtteranceError(s1) ELSE s1)

\* The engine delivers the terminal event of an utterance cancel() removed:
\* "error" (interrupted, canceled) or, with some engines, "end".
LateEvent(c, kind) ==
  /\ c \in cancelled
  /\ LET s1 == [S EXCEPT !.cancelled = cancelled \ {c}]
     IN  Step(IF kind = "end" /\ c.onend
              THEN [onChunkEnd(s1) EXCEPT !.lastEvent = "late"]
              ELSE IF kind = "error" /\ c.onerror
              THEN [onUtteranceError(s1) EXCEPT !.lastEvent = "late"]
              ELSE s1)

\* The state r, as an initial state.
Start(r) ==
  /\ currentText = r.currentText
  /\ currentChunks = r.currentChunks
  /\ currentIndex = r.currentIndex
  /\ isPlaying = r.isPlaying
  /\ utterance = r.utterance
  /\ lastBoundaryGlobalStart = r.lastBoundaryGlobalStart
  /\ restartInFlight = r.restartInFlight
  /\ isPDFMode = r.isPDFMode
  /\ pdfSpans = r.pdfSpans
  /\ currentPDFSpanEl = r.currentPDFSpanEl
  /\ loading = r.loading
  /\ queue = r.queue
  /\ cancelled = r.cancelled
  /\ paused = r.paused
  /\ timers = r.timers
  /\ rateValue = r.rateValue
  /\ volumeValue = r.volumeValue
  /\ voiceValue = r.voiceValue
  /\ speedLabel = r.speedLabel
  /\ resumeTarget = r.resumeTarget
  /\ lastEvent = r.lastEvent

Init == Start(InitState)

Next ==
  \/ ChoosePDF
  \/ \E pages \in PdfFiles : PDFLoaded(pages)
  \/ ChooseText
  \/ \E text \in Docs : TextLoaded(text)
  \/ LoadFailed
  \/ \E text \in Docs : PasteInput(text)
  \/ \E idx \in JumpTargets : DblClick(idx)
  \/ PlayPauseClick
  \/ StopClick
  \/ VoiceChange
  \/ RateChange
  \/ VolumeChange
  \/ RateInput
  \/ \E i \in 1..MaxTimers : TimerFire(i)
  \/ \E charIndex \in 0..(internalChunkSize - 1) : Boundary(charIndex)
  \/ UtteranceEnd
  \/ UtteranceError
  \/ \E c \in cancelled, kind \in {"end", "error"} : LateEvent(c, kind)

Spec == Init /\ [][Next]_vars

(* ---------------- chunking, over every text (SpecChunks) --------------- *)

NextChunks == \E text \in AllTexts : PasteInput(text)

SpecChunks == Init /\ [][NextChunks]_vars

CeilDiv(a, b) == (a + b - 1) \div b

\* C1: the chunks concatenated in order are the text, chunk i is the slice
\* of the text that starts at global offset i * chunkSize, and there are
\* ceil(len / chunkSize) chunks (none for the empty text).
ChunkCoverage ==
  /\ Concat(currentChunks) = currentText
  /\ Len(currentChunks) = CeilDiv(Len(currentText), internalChunkSize)
  /\ \A i \in 0..(Len(currentChunks) - 1) :
       /\ currentChunks[i + 1] # <<>>
       /\ \A k \in 1..Len(currentChunks[i + 1]) :
            currentChunks[i + 1][k] = currentText[i * internalChunkSize + k]

\* A text of several chunks whose last chunk is short has been chunked.
ChunkCoverageWitness ==
  /\ Len(currentChunks) >= 2
  /\ Len(currentText) % internalChunkSize # 0
  /\ \E k \in 2..Len(currentText) : currentText[k] # currentText[1]

(* ------------- highlight over every span array (SpecHighlight) --------- *)

\* A span array as renderPDFToViewer leaves it: start <= end in each span,
\* spans in ascending order and not overlapping.
IsSortedSpans(sp) ==
  /\ \A i \in DOMAIN sp : sp[i].start <= sp[i].end
  /\ \A i \in DOMAIN sp : i > 1 => sp[i - 1].end <= sp[i].start

\* The sorted arrays of n spans that start at lo or later.
RECURSIVE SortedSpansFrom(_, _)
SortedSpansFrom(n, lo) ==
  IF n = 0 THEN {<<>>}
  ELSE UNION {UNION {{<<[start |-> a, end |-> b]>> \o rest :
                        rest \in SortedSpansFrom(n - 1, b)} :
                     b \in a..MaxSpanEnd} :
              a \in lo..MaxSpanEnd}

SortedSpans == UNION {SortedSpansFrom(n, 0) : n \in 0..MaxSpans}

InitHighlight ==
  \E sp \in SortedSpans :
    Start([InitState EXCEPT !.isPDFMode = TRUE, !.pdfSpans = sp])

\* A boundary event of an utterance with base offset baseOffset, at a global
\* offset not before that of the event before it.
DriveBoundary(baseOffset, charIndex) ==
  /\ baseOffset + charIndex >= lastBoundaryGlobalStart
  /\ baseOffset + charIndex <= MaxSpanEnd
  /\ Apply(onboundary(S, baseOffset, charIndex))

NextHighlight ==
  \E baseOffset \in 0..MaxSpanEnd, charIndex \in 0..MaxSpanEnd :
    DriveBoundary(baseOffset, charIndex)

SpecHighlight == InitHighlight /\ [][NextHighlight]_vars

\* C8: with sorted, non-overlapping spans and boundary events at
\* non-decreasing global offsets, the highlight never moves to a span that
\* starts before the span highlighted until then.
HighlightMonotone ==
  [][(currentPDFSpanEl > 0 /\ currentPDFSpanEl' > 0)
       => pdfSpans[currentPDFSpanEl'].start >= pdfSpans[currentPDFSpanEl].start]_vars

\* The highlight has reached the last of three spans, each of them able to
\* hold an offset.
HighlightMonotoneWitness ==
  /\ Len(pdfSpans) = 3
  /\ \A i \in 1..3 : pdfSpans[i].start < pdfSpans[i].end
  /\ currentPDFSpanEl = 3
  /\ lastBoundaryGlobalStart > pdfSpans[3].start

\* The spans that hold the offset x, by a scan of the whole array.
SpansHolding(spans, x) ==
  {i \in DOMAIN spans : spans[i].start <= x /\ x < spans[i].end}

\* C21: over a sorted, non-overlapping span array, findPDFSpanAt(x) is the
\* span with start <= x < end when a scan of the array finds one and null
\* when it finds none, for every offset x; and a boundary event at an offset
\* no span holds leaves the highlighted span as it was.
SearchAgreesWithScan ==
  /\ [](\A x \in 0..(MaxSpanEnd + 1) :
          LET hit == findPDFSpanAt(pdfSpans, x)
          IN  IF SpansHolding(pdfSpans, x) = {} THEN hit = 0
              ELSE SpansHolding(pdfSpans, x) = {hit})
  /\ [][SpansHolding(pdfSpans, lastBoundaryGlobalStart') = {}
          => currentPDFSpanEl' = currentPDFSpanEl]_vars

\* The first of several spans is highlighted and the latest boundary event
\* was at an offset between two spans, held by none.
SearchAgreesWithScanWitness ==
  /\ Len(pdfSpans) >= 2
  /\ currentPDFSpanEl = 1
  /\ pdfSpans[1].end <= lastBoundaryGlobalStart
  /\ lastBoundaryGlobalStart < pdfSpans[Len(pdfSpans)].start
  /\ SpansHolding(pdfSpans, lastBoundaryGlobalStart) = {}

(* ------------------------- claims about playback ----------------------- *)

\* C2: a jump to a global offset o inside a non-empty text sets the chunk
\* index to floor(o / chunkSize), issues the one request for that chunk
\* sliced at o - chunkIndex * chunkSize, and leaves the tracked offset at o.
JumpRoundTrip ==
  [][\A o \in 0..MaxLen :
       (o < Len(currentText) /\ DblClick(o))
         => /\ currentIndex' = o \div internalChunkSize
            /\ Len(queue') = 1
            /\ queue'[1].text =
                 SliceFrom(currentChunks'[currentIndex' + 1],
                           o - currentIndex' * internalChunkSize)
            /\ queue'[1].text[1] = currentText[o + 1]
            /\ queue'[1].base = o
            /\ lastBoundaryGlobalStart' = o]_vars

\* A request that starts one character into the second chunk, nothing of it
\* spoken yet.
JumpRoundTripWitness ==
  /\ queue # <<>>
  /\ Head(queue).base = internalChunkSize + 1
  /\ Head(queue).last = -1
  /\ currentIndex = 1
  /\ lastBoundaryGlobalStart = internalChunkSize + 1
  /\ timers = <<>>
  /\ ~restartInFlight

\* C3: the engine never holds more than one request.
AtMostOneRequest == Len(queue) <= 1

\* A request is held while two timers, each about to issue one, are pending.
AtMostOneRequestWitness == Len(queue) = 1 /\ Len(timers) = 2

\* C4: after pause(), a voice, rate or volume change issues and schedules no
\* request, cancels nothing and leaves the state not playing.
PauseRespected ==
  [][(paused /\ ~isPlaying /\ (VoiceChange \/ RateChange \/ VolumeChange))
       => (~isPlaying' /\ queue' = queue /\ timers' = timers)]_vars

\* C5: after a settings change committed while playing at tracked offset p,
\* the next request a timer issues is for chunk floor(p / chunkSize), sliced
\* from p mod chunkSize, with base offset p.
ResumeAtTrackedOffset ==
  [][\A i \in 1..MaxTimers :
       (resumeTarget >= 0 /\ CanPlay(S) /\ TimerFire(i))
         => /\ currentIndex' = resumeTarget \div internalChunkSize
            /\ Head(queue').base = resumeTarget
            /\ Head(queue').text =
                 SliceFrom(currentChunks'[currentIndex' + 1],
                           resumeTarget % internalChunkSize)]_vars

\* C6: the terminal event of a cancelled request changes no playback state
\* and issues no request.
CancelledCallbackInert ==
  [][\A c \in cancelled, kind \in {"end", "error"} :
       LateEvent(c, kind)
         => (currentIndex' = currentIndex /\ isPlaying' = isPlaying
             /\ queue' = queue /\ timers' = timers)]_vars

\* The tracked offset is that of the active request.
TrackedAtActive ==
  queue # <<>>
    => lastBoundaryGlobalStart =
         Head(queue).base + (IF Head(queue).last < 0 THEN 0 ELSE Head(queue).last)

\* C7: while a request is active the tracked offset is its base offset plus
\* the index of its latest boundary event, its base offset when it has had
\* none; and a restart that interrupts a request that has had none resumes at
\* that request's base offset.
TrackedOffset ==
  [][/\ TrackedAtActive'
     /\ (/\ queue # <<>>
         /\ Head(queue).last < 0
         /\ (VoiceChange \/ RateChange \/ VolumeChange)
         /\ timers' # timers)
          => (currentIndex' * internalChunkSize + timers'[Len(timers')].offset
                = Head(queue).base)]_vars

\* A request that started inside the text has delivered a boundary event
\* past its first character.
TrackedOffsetWitness ==
  /\ queue # <<>>
  /\ Head(queue).base > 0
  /\ Head(queue).last > 0
  /\ timers # <<>>

\* A document change: setTextViewer, renderPDFToViewer or an edit.
DocChange ==
  \/ \E text \in Docs : PasteInput(text) \/ TextLoaded(text)
  \/ \E pages \in PdfFiles : PDFLoaded(pages)

\* C9: every document change rebuilds the chunks and resets the cursor to
\* chunk index 0, tracked offset 0, stopped.
DocChangeResets ==
  [][DocChange
       => /\ currentChunks' = ChunksFrom(currentText', 0)
          /\ currentIndex' = 0
          /\ lastBoundaryGlobalStart' = 0
          /\ ~isPlaying']_vars

\* C10: after stop() the cursor is chunk index 0, tracked offset 0, stopped.
StopResets ==
  [][StopClick
       => (currentIndex' = 0 /\ lastBoundaryGlobalStart' = 0 /\ ~isPlaying')]_vars

(* ---------------------- claims about the two timers -------------------- *)

\* Timer i is pending and is one that kind of code set.
IsTimer(i, kind) == i \in DOMAIN timers /\ timers[i].kind = kind

\* C11: the auto-advance timer issues the next chunk's request only if the
\* state is still playing and no pause, stop, jump, restart or document
\* change was the last thing to happen before it fires.
AdvanceOnlyIfPlaying ==
  [][\A i \in 1..MaxTimers :
       (IsTimer(i, "advance") /\ CanPlay(S) /\ TimerFire(i))
         => (isPlaying
             /\ lastEvent \notin {"pause", "stop", "jump", "change", "doc"})]_vars

\* C13: an error of the active request leaves the state not playing, the
\* chunk index and the tracked offset as they were and no request active;
\* and while that error is the last thing that happened, no timer issues a
\* request.
ErrorStops ==
  [][/\ UtteranceError
          => /\ ~isPlaying'
             /\ currentIndex' = currentIndex
             /\ lastBoundaryGlobalStart' = lastBoundaryGlobalStart
             /\ queue' = <<>>
     /\ \A i \in 1..MaxTimers :
          (lastEvent = "error" /\ TimerFire(i))
            => (queue' = queue /\ ~isPlaying')]_vars

\* Play, a jump or a committed change of a control.
PlayJumpOrChange ==
  \/ PlayPauseClick
  \/ \E idx \in JumpTargets : DblClick(idx)
  \/ VoiceChange
  \/ RateChange
  \/ VolumeChange

\* C14: the empty text has no chunks, and with it Play, a jump and every
\* voice, rate or volume change issue no request, cancel nothing, set no
\* timer and leave the chunk index, the tracked offset and the playing flag
\* as they were.
EmptyTextNoOps ==
  /\ [](currentText = <<>> => currentChunks = <<>>)
  /\ [][(currentText = <<>> /\ PlayJumpOrChange)
          => UNCHANGED <<queue, cancelled, paused, timers, restartInFlight,
                         currentIndex, lastBoundaryGlobalStart, isPlaying>>]_vars

\* The text has been emptied during playback: a request is active, a timer
\* is pending and the state is playing.
EmptyTextNoOpsWitness ==
  /\ currentText = <<>>
  /\ queue # <<>>
  /\ timers # <<>>
  /\ isPlaying

\* C16: a jump to offset o of a non-empty text leaves, from every state, the
\* state playing with the request that starts at o as the active one; and
\* while the jump is the last thing that happened, a timer that fires (one
\* set before the jump) does not replace that request by one at another
\* position.
JumpWins ==
  [][/\ \A o \in JumpTargets :
          (o < Len(currentText) /\ DblClick(o))
            => (isPlaying' /\ Len(queue') = 1 /\ Head(queue').base = o)
     /\ \A i \in 1..MaxTimers :
          (lastEvent = "jump" /\ queue # <<>> /\ TimerFire(i))
            => (queue' # <<>> /\ Head(queue').base = Head(queue).base)]_vars

\* A committed change of a control.
SettingsChange == VoiceChange \/ RateChange \/ VolumeChange

\* A restart has cancelled and its settle timer has not fired yet.
RestartPending == \E i \in 1..MaxTimers : IsTimer(i, "restart")

\* C17: while a restart is in flight, from its cancel until its settle timer
\* fires, a voice, rate or volume change sets no timer, cancels nothing and
\* issues no request, so that never two settle timers are pending.
RestartGuard ==
  /\ [](Cardinality({i \in DOMAIN timers : timers[i].kind = "restart"}) <= 1)
  /\ [][(RestartPending /\ SettingsChange)
          => UNCHANGED <<queue, cancelled, timers>>]_vars

\* C18: when a change of a control was committed while an auto-advance
\* timer was pending, and nothing has happened since, the auto-advance timer
\* issues no request when it fires: the restart's request is the only one.
AdvanceYieldsToRestart ==
  [][\A i \in 1..MaxTimers :
       (IsTimer(i, "advance") /\ lastEvent = "change" /\ TimerFire(i))
         => (queue' = queue /\ RestartPending')]_vars

\* C19: when the user has paused or stopped while a settle timer was
\* pending, and nothing has happened since, the settle timer issues no
\* request when it fires and the state stays not playing.
RestartRespectsPause ==
  [][\A i \in 1..MaxTimers :
       (IsTimer(i, "restart") /\ lastEvent \in {"pause", "stop"}
          /\ TimerFire(i))
         => (queue' = queue /\ ~isPlaying')]_vars

\* C22: the chunk index is never negative and never more than the number
\* of chunks of the document.
ChunkIndexInRange ==
  /\ 0 <= currentIndex
  /\ currentIndex <= Len(currentChunks)
  /\ Len(currentChunks) = Len(ChunksFrom(currentText, 0))

\* C23: the restart guard is set only while the settle timer of its restart
\* is pending, and the settle timer clears it when it fires: the guard is
\* never left set with nothing pending that would clear it.
GuardCleared ==
  /\ [](restartInFlight => RestartPending)
  /\ [][\A i \in 1..MaxTimers :
          (IsTimer(i, "restart") /\ TimerFire(i)) => ~restartInFlight']_vars

\* C24: with a document that is not empty, the state not playing and the
\* engine not paused, a click on play issues a request and enters the
\* playing state.
PlayStarts ==
  [][(currentText # <<>> /\ ~isPlaying /\ ~paused /\ PlayPauseClick)
       => /\ isPlaying'
          /\ queue' # <<>>
          /\ queue'[Len(queue')].ref
          /\ queue'[Len(queue')].last = -1]_vars

(* ------------- an undisturbed run of a document (SpecRun) -------------- *)

\* Every text of 1 to MaxLen characters over two characters.
RunTexts == UNION {[1..n -> {"a", "b"}] : n \in 1..MaxLen}

\* A non-empty text has been entered and nothing else has happened.
InitRun == \E text \in RunTexts : Start(pasteBoxInput(InitState, text))

\* The one user action of the run: Play, on the document not yet played.
RunPlay == utterance = NULL /\ ~isPlaying /\ PlayPauseClick

NextRun ==
  \/ RunPlay
  \/ \E charIndex \in 0..(internalChunkSize - 1) : Boundary(charIndex)
  \/ UtteranceEnd
  \/ \E i \in 1..MaxTimers : TimerFire(i)

\* The engine completes every request and every timer fires.
SpecRun ==
  /\ InitRun
  /\ [][NextRun]_vars
  /\ WF_vars(RunPlay)
  /\ WF_vars(UtteranceEnd)
  /\ WF_vars(\E i \in 1..MaxTimers : TimerFire(i))

\* A request is issued only when none is active, and it is for the whole of
\* the chunk at the chunk index.
IssuesCurrentChunk ==
  (queue = <<>> /\ queue' # <<>>)
    => /\ Len(queue') = 1
       /\ currentIndex' = currentIndex
       /\ currentIndex < Len(currentChunks)
       /\ Head(queue').base = currentIndex * internalChunkSize
       /\ Head(queue').text = currentChunks[currentIndex + 1]

\* An active request stays the active one until it completes, and the chunk
\* index moves, by one, only when it completes.
AdvancesOnCompletion ==
  /\ queue # <<>>
       => \/ queue' = <<>> /\ currentIndex' = currentIndex + 1
          \/ /\ Len(queue') = 1
             /\ [queue'[1] EXCEPT !.last = queue[1].last] = queue[1]
             /\ currentIndex' = currentIndex
  /\ (queue = <<>> /\ queue' = <<>>) => currentIndex' = currentIndex

\* Playback has stopped at the end of the document, by a completion.
Finished ==
  /\ ~isPlaying
  /\ currentIndex = Len(currentChunks)
  /\ queue = <<>>
  /\ timers = <<>>
  /\ lastEvent = "end"

\* C12: from Play at chunk 0 of a document of n >= 1 chunks, with no other
\* user action, each of the chunks 0..n-1 is requested once, in increasing
\* order, and playback ends stopped with the chunk index n, by a completion
\* and not by an error.
PlaysToTheEnd ==
  /\ [][IssuesCurrentChunk /\ AdvancesOnCompletion]_vars
  /\ <>[]Finished

\* A document of several chunks, the last one short, has been played to its
\* end.
PlaysToTheEndWitness ==
  /\ Finished
  /\ Len(currentChunks) >= 2
  /\ Len(currentText) % internalChunkSize # 0
  /\ utterance # NULL

(* ---------------- the controls' values (SpecSettings) ------------------ *)

\* Values of the rate slider (0.25 to 5), in hundredths.
Rates == {25, One, 500}

\* Values of the volume slider (0 to 1), in hundredths.
Volumes == {0, 50, One}

\* The options of voiceSelect.
VoiceNames == {voices[k] : k \in DOMAIN voices}

\* A text of two chunks has been entered.
InitSettings == Start(pasteBoxInput(InitState, Doc(internalChunkSize + 1)))

NextSettings ==
  \/ PlayPauseClick
  \/ \E v \in VoiceNames : VoiceChangeTo(v)
  \/ \E v \in Rates : RateChangeTo(v)
  \/ \E v \in Rates : RateInputTo(v)
  \/ \E v \in Volumes : VolumeChangeTo(v)
  \/ \E i \in 1..MaxTimers : TimerFire(i)
  \/ UtteranceEnd

SpecSettings == InitSettings /\ [][NextSettings]_vars

\* This step issues a request.
RequestIssued == queue' # <<>> /\ Head(queue').last = -1 /\ queue' # queue

\* C15: a request carries the rate, the volume and the voice the controls
\* have when it is issued, whatever their values, a volume of 0 included.
CarriesLatestSettings ==
  [][RequestIssued
       => /\ Head(queue').rate = rateValue'
          /\ Head(queue').volume = volumeValue'
          /\ Head(queue').voice = voiceValue']_vars

\* C20: an input event of the rate slider sets the label and leaves the
\* engine, the timers, the chunk index, the tracked offset, the playing flag
\* and the restart guard as they were; a change event during playback
\* enters the restart: guard set, speech cancelled, settle timer set.
DragOnlyLabel ==
  [][\A v \in Rates :
       /\ RateInputTo(v)
            => /\ speedLabel' = FormatSpeed(v)
               /\ UNCHANGED <<queue, cancelled, paused, timers, currentIndex,
                              lastBoundaryGlobalStart, isPlaying,
                              restartInFlight>>
       /\ (isPlaying /\ ~restartInFlight /\ RateChangeTo(v))
            => /\ speedLabel' = FormatSpeed(v)
               /\ restartInFlight'
               /\ queue' = <<>>
               /\ Len(timers') = Len(timers) + 1
               /\ timers'[Len(timers')].kind = "restart"]_vars

\* A drag during playback: the label and the control show a rate the active
\* request was not issued with.
DragOnlyLabelWitness ==
  /\ isPlaying
  /\ queue # <<>>
  /\ Head(queue).rate # rateValue
  /\ rateValue # One
  /\ speedLabel = FormatSpeed(rateValue)
  /\ ~restartInFlight

====
